---- MODULE Spec2Model ----
(***************************************************************************)
(* The USB/IP server of src/src/lib.rs: the listener of `server` and the   *)
(* per-connection command loop of `handler`, at the level of the bytes     *)
(* read from and written to the socket.                                    *)
(***************************************************************************)
EXTENDS Integers, Sequences, FiniteSets, TLC

\* ------------------------------------------------------------------ bounds
\* Number of TCP connections the listener may accept.
NumConns == 1
\* Number of steps the peers take, over all connections: commands sent and
\* connections closed.
MaxCmds == 3
\* Number of connections in the specification of the listener (SpecServer).
NumServerConns == 2
\* Number of accepts that fail.
MaxAcceptErrors == 1

Conns == 1..NumConns
ServerConns == 1..NumServerConns
AllConns == Conns \cup ServerConns

\* ------------------------------------------------------------ byte helpers
\* AsyncWriteExt::write_u32: four bytes, most significant first.
BE32(w) == << (w \div 16777216) % 256, (w \div 65536) % 256, (w \div 256) % 256, w % 256 >>

\* AsyncWriteExt::write_u16.
BE16(w) == << (w \div 256) % 256, w % 256 >>

\* AsyncReadExt::read_u32 of the four bytes that follow offset off of s.
U32(s, off) == s[off + 1] * 16777216 + s[off + 2] * 65536 + s[off + 3] * 256 + s[off + 4]

\* The n bytes that follow offset off of s (read_exact into an n-byte buffer).
Slice(s, off, n) == [k \in 1..n |-> s[off + k]]

\* Vec::resize(n, 0): truncate to n bytes or pad with zero bytes.
Resize(s, n) == [k \in 1..n |-> IF k <= Len(s) THEN s[k] ELSE 0]

\* ep | 0x80 on a u32.
Or80(ep) == IF (ep \div 128) % 2 = 1 THEN ep ELSE ep + 128

\* `x as u8`.
AsU8(x) == x % 256

\* ----------------------------------------------------------------- opcodes
\* The byte patterns of the `match command` arms.
OP_REQ_DEVLIST == <<1, 17, 128, 5>>
OP_REQ_IMPORT == <<1, 17, 128, 3>>
USBIP_CMD_SUBMIT == <<0, 0, 0, 1>>
USBIP_CMD_UNLINK == <<0, 0, 0, 2>>

\* The reply codes handed to write_u32: 0x01110005, 0x01110003, 0x3.
OP_REP_DEVLIST == 1 * 16777216 + 17 * 65536 + 5
OP_REP_IMPORT == 1 * 16777216 + 17 * 65536 + 3
USBIP_RET_SUBMIT == 0 * 16777216 + 3

\* ----------------------------------------------------------------- devices
\* Endpoint attributes (spec 3): control=0, bulk=2, interrupt=3.
EpIntrIn == [address |-> 129, attributes |-> 3]
EpBulkOut == [address |-> 2, attributes |-> 2]
EpBulkIn == [address |-> 131, attributes |-> 2]

\* handler: the UsbInterfaceHandler behind the interface, an emulated one or
\* the UsbHostHandler of host.rs.
IntfCdc == [class |-> 2, subclass |-> 2, protocol |-> 0, handler |-> "emulated",
            endpoints |-> <<EpIntrIn, EpBulkOut, EpBulkIn>>]
IntfHid == [class |-> 3, subclass |-> 0, protocol |-> 0, handler |-> "host",
            endpoints |-> <<EpIntrIn, EpBulkOut>>]

\* "1-1" and "1-1.2" in ASCII; the third device repeats the first bus_id.
BusId11 == <<49, 45, 49>>
BusId112 == <<49, 45, 49, 46, 50>>

\* A UsbIpServer.devices list of three devices.
ThreeDevices ==
  << [path |-> <<47, 97>>, bus_id |-> BusId11, bus_num |-> 1, dev_num |-> 1, speed |-> 3,
      vendor_id |-> 4660, product_id |-> 22136, device_bcd |-> 256,
      class |-> 2, subclass |-> 0, protocol |-> 0, interfaces |-> <<IntfCdc>>],
     [path |-> <<47, 98>>, bus_id |-> BusId112, bus_num |-> 1, dev_num |-> 2, speed |-> 3,
      vendor_id |-> 4660, product_id |-> 22137, device_bcd |-> 256,
      class |-> 0, subclass |-> 0, protocol |-> 0, interfaces |-> <<IntfHid>>],
     [path |-> <<47, 99>>, bus_id |-> BusId11, bus_num |-> 1, dev_num |-> 3, speed |-> 3,
      vendor_id |-> 4660, product_id |-> 22138, device_bcd |-> 256,
      class |-> 0, subclass |-> 0, protocol |-> 0, interfaces |-> <<>>] >>

None == 0

VARIABLES
  devices,                \* UsbIpServer.devices: fixed at construction, shared read-only
  task,                   \* per connection: "none", "running", "returned", "panicked"
  current_import_device,  \* per connection: None or an index into devices
  input,                  \* per connection: every byte the peer has sent
  pos,                    \* per connection: how many of them the handler has read
  eof,                    \* per connection: the peer has closed its side
  output,                 \* per connection: the bytes written, one chunk per reply
  trace,                  \* per connection: what each loop iteration did
  sent,                   \* per connection: offsets at which the peer's commands start
  inflight,               \* per connection: the submit between its header and its reply
  accept_errors           \* accepts that returned Err

vars == <<devices, task, current_import_device, input, pos, eof, output, trace, sent,
          inflight, accept_errors>>

\* UsbDevice::write_dev: the 312-byte device record.
WriteDev(d) ==
  Resize(d.path, 256) \o Resize(d.bus_id, 32)
    \o BE32(d.bus_num) \o BE32(d.dev_num) \o BE32(d.speed)
    \o BE16(d.vendor_id) \o BE16(d.product_id) \o BE16(d.device_bcd)
    \o << d.class, d.subclass, d.protocol, 1, 1, Len(d.interfaces) >>

RECURSIVE WriteInterfaces(_)
WriteInterfaces(is) ==
  IF is = <<>> THEN <<>>
  ELSE << Head(is).class, Head(is).subclass, Head(is).protocol, 0 >> \o WriteInterfaces(Tail(is))

\* UsbDevice::write_dev_with_interfaces: device record, then 4 bytes per interface.
WriteDevWithInterfaces(d) == WriteDev(d) \o WriteInterfaces(d.interfaces)


\* ------------------------------------------------------- lookup and dispatch
\* ImportScan without the `break`: the last matching device wins.
RECURSIVE ImportScanNoBreak(_, _)
ImportScanNoBreak(i, bus_id) ==
  IF i > Len(devices) THEN None
  ELSE IF ImportScanNoBreak(i + 1, bus_id) # None THEN ImportScanNoBreak(i + 1, bus_id)
  ELSE IF Resize(devices[i].bus_id, 32) = bus_id THEN i
  ELSE None

\* The scan of the OP_REQ_IMPORT arm: the first device whose bus_id, resized
\* to 32 bytes, equals the 32 bytes read; None when the loop ends without one.
RECURSIVE ImportScan(_, _)
ImportScan(i, bus_id) ==
  IF i > Len(devices) THEN None
  ELSE IF Resize(devices[i].bus_id, 32) = bus_id THEN i
  ELSE ImportScan(i + 1, bus_id)

\* RealEp that ORs 0x80 in for direction 1 only.
RealEpOnlyIn(direction, ep) == IF direction = 1 THEN Or80(ep) ELSE ep

\* let real_ep = if direction == 0 { ep } else { ep | 0x80 };
RealEp(direction, ep) == IF direction = 0 THEN ep ELSE Or80(ep)

RECURSIVE ScanEndpoints(_, _)
ScanEndpoints(eps, address) ==
  IF eps = <<>> THEN [some |-> FALSE, ep |-> [address |-> 0, attributes |-> 0]]
  ELSE IF Head(eps).address = address THEN [some |-> TRUE, ep |-> Head(eps)]
  ELSE ScanEndpoints(Tail(eps), address)

RECURSIVE ScanInterfaces(_, _)
ScanInterfaces(intfs, address) ==
  IF intfs = <<>>
  THEN [some |-> FALSE, ep |-> [address |-> 0, attributes |-> 0], handler |-> "none"]
  ELSE IF ScanEndpoints(Head(intfs).endpoints, address).some
       THEN [some |-> TRUE, ep |-> ScanEndpoints(Head(intfs).endpoints, address).ep,
             handler |-> Head(intfs).handler]
  ELSE ScanInterfaces(Tail(intfs), address)

\* UsbDevice::find_ep: endpoint 0 in either direction is implicit and has no
\* interface, any other address is looked up by linear scan over the
\* interfaces and comes with the interface that owns it.
FindEp(d, address) ==
  IF address = 128
  THEN [some |-> TRUE, ep |-> [address |-> 128, attributes |-> 0], handler |-> "none"]
  ELSE IF address = 0
  THEN [some |-> TRUE, ep |-> [address |-> 0, attributes |-> 0], handler |-> "none"]
  ELSE ScanInterfaces(d.interfaces, address)

\* UsbEndpoint::direction is Out when bit 7 of the address is clear.
IsOut(usb_ep) == (usb_ep.address \div 128) % 2 = 0

\* Length of the payload handle_urb reads from the socket before dispatch.
OutLen(usb_ep, transfer_buffer_length) == IF IsOut(usb_ep) THEN transfer_buffer_length ELSE 0

\* The results device.handle_urb(..).await can produce: Ok(resp) or Err.
\* transfer tells what became of the host USB transfer, if there was one.
Resps == { <<>>, <<170, 187, 204>> }
HandleUrbResults ==
  { [ok |-> TRUE, resp |-> r, transfer |-> "none"] : r \in Resps }
    \cup { [ok |-> FALSE, resp |-> <<>>, transfer |-> "none"] }

\* What read_control / read_interrupt / read_bulk (or the write_ calls) of the
\* host USB library return: Ok with the bytes transferred, or Err.
HostTransfers ==
  { [ok |-> TRUE, data |-> r] : r \in Resps } \cup { [ok |-> FALSE, data |-> <<>>] }

\* UsbHostHandler::handle_urb: a control, interrupt or bulk IN transfer that
\* succeeds returns the bytes read; everything else, a failed transfer
\* included, falls through to Ok(vec![]).
HostHandleUrb(usb_ep, t) ==
  IF usb_ep.attributes \in {0, 3, 2} /\ ~IsOut(usb_ep) /\ t.ok
  THEN [ok |-> TRUE, resp |-> t.data, transfer |-> "ok"]
  ELSE [ok |-> TRUE, resp |-> <<>>, transfer |-> IF t.ok THEN "ok" ELSE "failed"]

\* The results of handle_urb for the endpoint found: those of the host
\* handler when the endpoint belongs to a host pass-through interface.
UrbResults(found) ==
  IF found.handler = "host"
  THEN { HostHandleUrb(found.ep, t) : t \in HostTransfers }
  ELSE HandleUrbResults

\* ----------------------------------------------------------------- replies
\* WriteAll that writes the devices last to first.
RECURSIVE WriteAllReversed(_)
WriteAllReversed(i) ==
  IF i > Len(devices) THEN <<>> ELSE WriteAllReversed(i + 1) \o WriteDevWithInterfaces(devices[i])

RECURSIVE WriteAll(_)
WriteAll(i) == IF i > Len(devices) THEN <<>> ELSE WriteDevWithInterfaces(devices[i]) \o WriteAll(i + 1)

\* DevlistReply without the status word.
DevlistReplyNoStatus == BE32(OP_REP_DEVLIST) \o BE32(Len(devices)) \o WriteAll(1)

\* The writes of the OP_REQ_DEVLIST arm.
DevlistReply == BE32(OP_REP_DEVLIST) \o BE32(0) \o BE32(Len(devices)) \o WriteAll(1)

\* ImportReply that reports status 0 whether or not a device was found.
ImportReplyAlwaysOk(dev) ==
  BE32(OP_REP_IMPORT) \o BE32(0) \o (IF dev # None THEN WriteDev(devices[dev]) ELSE <<>>)

\* The writes of the OP_REQ_IMPORT arm.
ImportReply(dev) ==
  BE32(OP_REP_IMPORT) \o (IF dev # None THEN BE32(0) \o WriteDev(devices[dev]) ELSE BE32(1))

\* RetSubmit whose actual length also counts the echoed setup bytes.
RetSubmitLenWithSetup(seq_num, dev_id, direction, ep, setup, resp) ==
  BE32(USBIP_RET_SUBMIT) \o BE32(seq_num) \o BE32(dev_id) \o BE32(direction) \o BE32(ep)
    \o BE32(0) \o BE32(Len(setup) + Len(resp)) \o BE32(0) \o BE32(0) \o BE32(0) \o setup \o resp

\* RetSubmit that writes the lookup address real_ep in place of the wire ep.
RetSubmitRealEp(seq_num, dev_id, direction, ep, setup, resp) ==
  BE32(USBIP_RET_SUBMIT) \o BE32(seq_num) \o BE32(dev_id) \o BE32(direction)
    \o BE32(RealEp(direction, ep))
    \o BE32(0) \o BE32(Len(resp)) \o BE32(0) \o BE32(0) \o BE32(0) \o setup \o resp

\* The writes of the USBIP_CMD_SUBMIT arm.
RetSubmit(seq_num, dev_id, direction, ep, setup, resp) ==
  BE32(USBIP_RET_SUBMIT) \o BE32(seq_num) \o BE32(dev_id) \o BE32(direction) \o BE32(ep)
    \o BE32(0) \o BE32(Len(resp)) \o BE32(0) \o BE32(0) \o BE32(0) \o setup \o resp

\* ------------------------------------------------------- what clients send
SetupGetDescriptor == <<128, 6, 0, 1, 0, 0, 64, 0>>

\* seq_num, direction, ep, transfer_buffer_length and the payload that follows.
SubmitShapes ==
  { [seq_num |-> 1, direction |-> 1, ep |-> 0, tbl |-> 18, payload |-> <<>>],
    [seq_num |-> 258, direction |-> 0, ep |-> 2, tbl |-> 2, payload |-> <<222, 173>>],
    [seq_num |-> 258, direction |-> 1, ep |-> 1, tbl |-> 8, payload |-> <<>>],
    [seq_num |-> 258, direction |-> 1, ep |-> 5, tbl |-> 8, payload |-> <<>>],
    [seq_num |-> 1, direction |-> 2, ep |-> 3, tbl |-> 0, payload |-> <<>>] }

SubmitBytes(sh) ==
  USBIP_CMD_SUBMIT \o BE32(sh.seq_num) \o BE32(65538) \o BE32(sh.direction) \o BE32(sh.ep)
    \o BE32(512) \o BE32(sh.tbl) \o BE32(7) \o BE32(3) \o BE32(4)
    \o SetupGetDescriptor \o sh.payload

\* USBIP_CMD_UNLINK as clients send it: 48 bytes, the opcode included; u is
\* the seq_num of the submit to unlink.
UnlinkBytes(seq_num, u) ==
  USBIP_CMD_UNLINK \o BE32(seq_num) \o BE32(65538) \o BE32(0) \o BE32(0) \o BE32(u)
    \o Resize(<<>>, 24)

\* "1-1", "1-1.2" and "nope".
RequestedBusIds == { BusId11, BusId112, <<110, 111, 112, 101>> }

Cmds ==
  { OP_REQ_DEVLIST \o BE32(0), <<1, 1, 128, 5>> \o BE32(0) }
    \cup { OP_REQ_IMPORT \o BE32(0) \o Resize(b, 32) : b \in RequestedBusIds }
    \cup { SubmitBytes(sh) : sh \in SubmitShapes }
    \cup { UnlinkBytes(2, 1) }

\* ------------------------------------------------------------------- state
Idle == [stage |-> "none", off |-> 0, device |-> None, resp |-> <<>>]

\* The state when server() starts to listen with the device list devs.
InitServer(devs) ==
  /\ devices = devs
  /\ task = [c \in AllConns |-> "none"]
  /\ current_import_device = [c \in AllConns |-> None]
  /\ input = [c \in AllConns |-> <<>>]
  /\ pos = [c \in AllConns |-> 0]
  /\ eof = [c \in AllConns |-> FALSE]
  /\ output = [c \in AllConns |-> <<>>]
  /\ trace = [c \in AllConns |-> <<>>]
  /\ sent = [c \in AllConns |-> <<>>]
  /\ inflight = [c \in AllConns |-> Idle]
  /\ accept_errors = 0

Init == InitServer(ThreeDevices)

\* The server of req_devlist and of scenario S1 without its device.
InitEmpty == InitServer(<<>>)

\* Steps the peers of connections 1..c have taken.
RECURSIVE PeerSteps(_)
PeerSteps(c) ==
  IF c = 0 THEN 0 ELSE Len(sent[c]) + (IF eof[c] THEN 1 ELSE 0) + PeerSteps(c - 1)

Running(c) == task[c] = "running"
Avail(c) == Len(input[c]) - pos[c]
Command(c) == Slice(input[c], pos[c], 4)
Known == {OP_REQ_DEVLIST, OP_REQ_IMPORT, USBIP_CMD_SUBMIT, USBIP_CMD_UNLINK}

\* Bytes the iteration that starts at pos[c] reads before it stops reading.
Need(c) ==
  IF Avail(c) < 4 THEN 4
  ELSE IF Command(c) = OP_REQ_DEVLIST THEN 8
  ELSE IF Command(c) = OP_REQ_IMPORT THEN 40
  ELSE IF Command(c) = USBIP_CMD_SUBMIT THEN
    IF Avail(c) < 48 \/ current_import_device[c] = None THEN 48
    ELSE LET found == FindEp(devices[current_import_device[c]],
                             AsU8(RealEp(U32(input[c], pos[c] + 12), U32(input[c], pos[c] + 16))))
         IN  IF found.some THEN 48 + OutLen(found.ep, U32(input[c], pos[c] + 24)) ELSE 48
  ELSE 4

\* A handler that polls the socket for the next command while the submit it
\* read before is still being dispatched or answered.
ReadsAhead(c) == TRUE

\* The handler is at the top of its loop: each arm is awaited to its end
\* before the next read_exact(&mut command).
AtLoopTop(c) == inflight[c].stage = "none"

\* Iterate over an import that is one field of the server, shared by every
\* connection, in place of a local of handler.
IterateSharedImport(c, op, n, dev, st, urb, transfer, resp, reply) ==
  /\ AtLoopTop(c)
  /\ pos' = [pos EXCEPT ![c] = @ + n]
  /\ current_import_device' = [b \in AllConns |-> dev]
  /\ task' = [task EXCEPT ![c] = st]
  /\ output' = [output EXCEPT ![c] = IF reply = <<>> THEN @ ELSE Append(@, reply)]
  /\ trace' = [trace EXCEPT ![c] = Append(@, [op |-> op, off |-> pos[c], st |-> st,
                                                before |-> current_import_device[c],
                                                urb |-> urb, resp |-> resp,
                                                transfer |-> transfer])]
  /\ UNCHANGED <<devices, input, eof, sent, inflight, accept_errors>>

\* One iteration of the loop: n bytes read, the import and the task as they
\* are left, what handle_urb returned ("none" when it was not called) and
\* what became of the host transfer behind it, the reply written (if any).
Iterate(c, op, n, dev, st, urb, transfer, resp, reply) ==
  /\ AtLoopTop(c)
  /\ pos' = [pos EXCEPT ![c] = @ + n]
  /\ current_import_device' = [current_import_device EXCEPT ![c] = dev]
  /\ task' = [task EXCEPT ![c] = st]
  /\ output' = [output EXCEPT ![c] = IF reply = <<>> THEN @ ELSE Append(@, reply)]
  /\ trace' = [trace EXCEPT ![c] = Append(@, [op |-> op, off |-> pos[c], st |-> st,
                                                before |-> current_import_device[c],
                                                urb |-> urb, resp |-> resp,
                                                transfer |-> transfer])]
  /\ UNCHANGED <<devices, input, eof, sent, inflight, accept_errors>>

\* ----------------------------------------------------------------- actions
\* Accept of a server that awaits handler inside the accept loop instead of
\* spawning it: the next socket is taken once every earlier handler returned.
AcceptInline(c) ==
  /\ task[c] = "none"
  /\ \A b \in AllConns : b < c => task[b] = "returned"
  /\ task' = [task EXCEPT ![c] = "running"]
  /\ UNCHANGED <<devices, current_import_device, input, pos, eof, output, trace, sent,
                 inflight, accept_errors>>

\* server: incoming.next() yields a socket and a handler task is spawned;
\* connections are numbered in the order they are accepted.
Accept(c) ==
  /\ task[c] = "none"
  /\ \A b \in AllConns : b < c => task[b] # "none"
  /\ task' = [task EXCEPT ![c] = "running"]
  /\ UNCHANGED <<devices, current_import_device, input, pos, eof, output, trace, sent,
                 inflight, accept_errors>>

\* The peer sends one command.
Send(c, cmds) ==
  /\ Running(c) /\ ~eof[c] /\ PeerSteps(Cardinality(AllConns)) < MaxCmds
  /\ \E cmd \in cmds :
       /\ input' = [input EXCEPT ![c] = @ \o cmd]
       /\ sent' = [sent EXCEPT ![c] = Append(@, Len(input[c]))]
  /\ UNCHANGED <<devices, task, current_import_device, pos, eof, output, trace,
                 inflight, accept_errors>>

ClientSend(c) == Send(c, Cmds)

\* The peer closes its side of the connection.
ClientClose(c) ==
  /\ Running(c) /\ ~eof[c] /\ PeerSteps(Cardinality(AllConns)) < MaxCmds
  /\ eof' = [eof EXCEPT ![c] = TRUE]
  /\ UNCHANGED <<devices, task, current_import_device, input, pos, output, trace, sent,
                 inflight, accept_errors>>

\* ReadFails of a handler that ignores the error and reads again.
ReadFailsRetries(c) ==
  /\ Running(c) /\ eof[c] /\ Avail(c) < Need(c)
  /\ UNCHANGED vars

\* read_exact / read_u32 hits the end of the stream: `?` returns the error.
ReadFails(c) ==
  /\ Running(c) /\ eof[c] /\ Avail(c) < Need(c)
  /\ Iterate(c, "closed", Avail(c), current_import_device[c], "returned", "none", "none", <<>>, <<>>)

HandleDevlist(c) ==
  /\ Running(c) /\ Avail(c) >= Need(c) /\ Command(c) = OP_REQ_DEVLIST
  /\ Iterate(c, "devlist", 8, current_import_device[c], "running", "none", "none", <<>>, DevlistReply)

HandleImport(c) ==
  /\ Running(c) /\ Avail(c) >= Need(c) /\ Command(c) = OP_REQ_IMPORT
  /\ LET bus_id == Slice(input[c], pos[c] + 8, 32)
         dev == ImportScan(1, bus_id)
     IN  Iterate(c, "import", 40, dev, "running", "none", "none", <<>>, ImportReply(dev))

\* SubmitUnbound that drops the submit and keeps looping.
SubmitUnboundIgnored(c) ==
  Iterate(c, "submit", 48, None, "running", "none", "none", <<>>, <<>>)

\* current_import_device.unwrap() on None: the task panics.
SubmitUnbound(c) ==
  Iterate(c, "submit", 48, None, "panicked", "none", "none", <<>>, <<>>)

\* device.find_ep(real_ep as u8).unwrap() on None: the task panics.
SubmitUnknownEndpoint(c, device) ==
  Iterate(c, "submit", 48, device, "panicked", "none", "none", <<>>, <<>>)

\* device.handle_urb(..).await?: on Err the handler returns the error, on
\* Ok(resp) it writes USBIP_RET_SUBMIT and loops.
SubmitDispatched(c, device, r) ==
  IF r.ok
  THEN Iterate(c, "submit", Need(c), device, "running", "ok", r.transfer, r.resp,
               RetSubmit(U32(input[c], pos[c] + 4), U32(input[c], pos[c] + 8),
                         U32(input[c], pos[c] + 12), U32(input[c], pos[c] + 16),
                         Slice(input[c], pos[c] + 40, 8), r.resp))
  ELSE Iterate(c, "submit", Need(c), device, "returned", "err", r.transfer, <<>>, <<>>)

HandleSubmit(c) ==
  /\ Running(c) /\ Avail(c) >= Need(c) /\ Command(c) = USBIP_CMD_SUBMIT
  /\ LET direction == U32(input[c], pos[c] + 12)
         ep == U32(input[c], pos[c] + 16)
         device == current_import_device[c]
     IN  IF device = None THEN SubmitUnbound(c)
         ELSE IF ~FindEp(devices[device], AsU8(RealEp(direction, ep))).some
              THEN SubmitUnknownEndpoint(c, device)
              ELSE \E r \in UrbResults(FindEp(devices[device], AsU8(RealEp(direction, ep)))) :
                     SubmitDispatched(c, device, r)

\* HandleUnlink that also forgets the import.
HandleUnlinkDetaches(c) ==
  /\ Running(c) /\ Avail(c) >= Need(c) /\ Command(c) = USBIP_CMD_UNLINK
  /\ Iterate(c, "unlink", 4, None, "running", "none", "none", <<>>, <<>>)

HandleUnlink(c) ==
  /\ Running(c) /\ Avail(c) >= Need(c) /\ Command(c) = USBIP_CMD_UNLINK
  /\ Iterate(c, "unlink", 4, current_import_device[c], "running", "none", "none", <<>>, <<>>)

\* _ => warn!("Got unknown command ..")
HandleUnknown(c) ==
  /\ Running(c) /\ Avail(c) >= Need(c) /\ Command(c) \notin Known
  /\ Iterate(c, "unknown", 4, current_import_device[c], "running", "none", "none", <<>>, <<>>)

Next ==
  \E c \in Conns :
    \/ Accept(c)
    \/ ClientSend(c)
    \/ ClientClose(c)
    \/ ReadFails(c)
    \/ HandleDevlist(c)
    \/ HandleImport(c)
    \/ HandleSubmit(c)
    \/ HandleUnlink(c)
    \/ HandleUnknown(c)

Spec == Init /\ [][Next]_vars

SpecEmpty == InitEmpty /\ [][Next]_vars

\* ---------------------------------------------- the server and its listener
\* What the peers of the server's connections send: imports of "1-1" and of
\* "nope", a submit to endpoint 0 and a submit to the missing endpoint 0x85.
ServerCmds ==
  { OP_REQ_IMPORT \o BE32(0) \o Resize(b, 32) : b \in { BusId11, <<110, 111, 112, 101>> } }
    \cup { SubmitBytes(sh) : sh \in { t \in SubmitShapes : t.direction = 1 /\ t.ep \in {0, 5} } }

ServerSend(c) == Send(c, ServerCmds)

\* incoming.next() yields Err: the loop warns and polls again.
AcceptError ==
  /\ accept_errors < MaxAcceptErrors
  /\ accept_errors' = accept_errors + 1
  /\ UNCHANGED <<devices, task, current_import_device, input, pos, eof, output, trace,
                 sent, inflight>>

NextServer ==
  \/ AcceptError
  \/ \E c \in ServerConns :
       \/ Accept(c)
       \/ ServerSend(c)
       \/ ClientClose(c)
       \/ ReadFails(c)
       \/ HandleImport(c)
       \/ HandleSubmit(c)

SpecServer == Init /\ [][NextServer]_vars

\* --------------------------------------------- the submit arm, await by await
\* What the peer sends while the submit arm is followed step by step.
StepsCmds ==
  { OP_REQ_DEVLIST \o BE32(0), <<1, 1, 128, 5>> \o BE32(0),
    OP_REQ_IMPORT \o BE32(0) \o Resize(BusId11, 32), UnlinkBytes(259, 258) }
    \cup { SubmitBytes(sh) : sh \in { t \in SubmitShapes : t.ep \in {0, 2, 5} } }

StepsSend(c) == Send(c, StepsCmds)

\* The reads of the submit arm up to the find_ep that succeeds: the header
\* words, the setup bytes and the OUT payload.
SubmitRead(c) ==
  /\ Running(c) /\ AtLoopTop(c) /\ Avail(c) >= Need(c) /\ Command(c) = USBIP_CMD_SUBMIT
  /\ current_import_device[c] # None
  /\ FindEp(devices[current_import_device[c]],
            AsU8(RealEp(U32(input[c], pos[c] + 12), U32(input[c], pos[c] + 16)))).some
  /\ inflight' = [inflight EXCEPT ![c] = [stage |-> "read", off |-> pos[c],
                                          device |-> current_import_device[c],
                                          resp |-> <<>>]]
  /\ pos' = [pos EXCEPT ![c] = @ + Need(c)]
  /\ UNCHANGED <<devices, task, current_import_device, input, eof, output, trace, sent,
                 accept_errors>>

\* The submit arms that panic before handle_urb is called.
SubmitPanics(c) ==
  /\ Running(c) /\ Avail(c) >= Need(c) /\ Command(c) = USBIP_CMD_SUBMIT
  /\ LET device == current_import_device[c]
     IN  IF device = None THEN SubmitUnbound(c)
         ELSE /\ ~FindEp(devices[device],
                         AsU8(RealEp(U32(input[c], pos[c] + 12), U32(input[c], pos[c] + 16)))).some
              /\ SubmitUnknownEndpoint(c, device)

\* device.handle_urb(..).await? returns: Err ends the handler, Ok(resp) is
\* kept for the writes.
SubmitDispatch(c) ==
  /\ Running(c) /\ inflight[c].stage = "read"
  /\ LET off == inflight[c].off
         device == inflight[c].device
         found == FindEp(devices[device],
                         AsU8(RealEp(U32(input[c], off + 12), U32(input[c], off + 16))))
     IN  \E r \in UrbResults(found) :
           /\ trace' = [trace EXCEPT ![c] =
                          Append(@, [op |-> "submit", off |-> off,
                                     st |-> IF r.ok THEN "running" ELSE "returned",
                                     before |-> device,
                                     urb |-> IF r.ok THEN "ok" ELSE "err",
                                     resp |-> r.resp, transfer |-> r.transfer])]
           /\ task' = [task EXCEPT ![c] = IF r.ok THEN @ ELSE "returned"]
           /\ inflight' = [inflight EXCEPT ![c] =
                             IF r.ok THEN [@ EXCEPT !.stage = "dispatched", !.resp = r.resp]
                             ELSE Idle]
  /\ UNCHANGED <<devices, current_import_device, input, pos, eof, output, sent,
                 accept_errors>>

\* The writes of USBIP_RET_SUBMIT, from write_u32(0x3) to write_all(&resp).
SubmitWrite(c) ==
  /\ Running(c) /\ inflight[c].stage = "dispatched"
  /\ LET off == inflight[c].off
     IN  output' = [output EXCEPT ![c] =
                      Append(@, RetSubmit(U32(input[c], off + 4), U32(input[c], off + 8),
                                          U32(input[c], off + 12), U32(input[c], off + 16),
                                          Slice(input[c], off + 40, 8), inflight[c].resp))]
  /\ inflight' = [inflight EXCEPT ![c] = Idle]
  /\ UNCHANGED <<devices, task, current_import_device, input, pos, eof, trace, sent,
                 accept_errors>>

NextSteps ==
  \E c \in Conns :
    \/ Accept(c)
    \/ StepsSend(c)
    \/ ClientClose(c)
    \/ ReadFails(c)
    \/ HandleDevlist(c)
    \/ HandleImport(c)
    \/ SubmitPanics(c)
    \/ SubmitRead(c)
    \/ SubmitDispatch(c)
    \/ SubmitWrite(c)
    \/ HandleUnlink(c)
    \/ HandleUnknown(c)

SpecSteps == Init /\ [][NextSteps]_vars

\* ------------------------------------------------ the handler under fairness
\* What the peer sends before it closes: a known and an unknown opcode, and
\* an unlink whose body leaves the handler in the middle of a command.
LiveCmds == { OP_REQ_DEVLIST \o BE32(0), <<1, 1, 128, 5>> \o BE32(0), UnlinkBytes(2, 1) }

LiveSend(c) == Send(c, LiveCmds)

\* The next step of the handler task of connection c.
LiveStep(c) ==
  \/ ReadFails(c)
  \/ HandleDevlist(c)
  \/ HandleSubmit(c)
  \/ HandleUnlink(c)
  \/ HandleUnknown(c)

NextLive ==
  \E c \in Conns :
    \/ Accept(c)
    \/ LiveSend(c)
    \/ ClientClose(c)
    \/ LiveStep(c)

\* The runtime polls a task whose socket has data or has reached its end.
SpecLive == Init /\ [][NextLive]_vars /\ \A c \in Conns : WF_vars(LiveStep(c))

\* ------------------------------------------------- vocabulary of the claims
Last(s) == s[Len(s)]
Ended(c) == task[c] \in {"returned", "panicked"}
ZeroBytes(n) == [k \in 1..n |-> 0]

IsRetSubmit(ch) == Len(ch) >= 48 /\ Slice(ch, 0, 4) = <<0, 0, 0, 3>>
IsImportReply(ch) == Len(ch) >= 8 /\ Slice(ch, 0, 4) = <<1, 17, 0, 3>>
ImportMissReply == <<1, 17, 0, 3, 0, 0, 0, 1>>
DeviceRecordLen == 256 + 32 + 12 + 6 + 6

\* The USBIP_RET_SUBMIT replies written on c, in order.
RetSubmits(c) == SelectSeq(output[c], IsRetSubmit)
\* The iterations of c in which handle_urb returned Ok.
Answered(c) == SelectSeq(trace[c], LAMBDA t : t.urb = "ok")
\* The USBIP_CMD_SUBMIT iterations of c that found a device imported.
BoundSubmits(c) == SelectSeq(trace[c], LAMBDA t : t.op = "submit" /\ t.before # None)

\* The handler reads the command at pos[c] in this step, all n bytes of whose
\* fixed part have arrived.
Reads(c, opcode, n) ==
  /\ Running(c) /\ Avail(c) >= n /\ Command(c) = opcode
  /\ pos'[c] # pos[c]

\* bus_id followed by zero bytes up to 32.
ZeroPadded32(bus_id) == bus_id \o ZeroBytes(32 - Len(bus_id))
Matching(requested) == { i \in 1..Len(devices) : ZeroPadded32(devices[i].bus_id) = requested }
FirstMatching(requested) ==
  IF Matching(requested) = {} THEN None
  ELSE CHOOSE i \in Matching(requested) : \A j \in Matching(requested) : i <= j

\* The addresses present on a device: endpoint 0 in both directions and the
\* endpoints of its interfaces.
Addresses(d) ==
  {0, 128} \cup UNION { { d.interfaces[i].endpoints[j].address :
                            j \in 1..Len(d.interfaces[i].endpoints) } :
                        i \in 1..Len(d.interfaces) }

\* The address a submit at pos[c] is looked up under.
LookupAddress(c) == AsU8(RealEp(U32(input[c], pos[c] + 12), U32(input[c], pos[c] + 16)))

\* A USBIP_RET_SUBMIT that reports failure: status non-zero, no data.
IsFailingRetSubmit(ch) ==
  IsRetSubmit(ch) /\ Slice(ch, 20, 4) # ZeroBytes(4) /\ Slice(ch, 24, 4) = ZeroBytes(4) /\ Len(ch) = 48

\* ------------------------------------------------------------------ claims
\* C1: on every connection the seq_num values of the USBIP_RET_SUBMIT replies
\* written are exactly those of the USBIP_CMD_SUBMIT requests the handler has
\* read with a device imported, each once and in the same order.
C1_SequencePreservation ==
  \A c \in Conns :
    /\ Len(RetSubmits(c)) = Len(BoundSubmits(c))
    /\ \A k \in 1..Len(RetSubmits(c)) :
         Slice(RetSubmits(c)[k], 4, 4) = Slice(input[c], BoundSubmits(c)[k].off + 4, 4)

\* C2: a USBIP_CMD_SUBMIT read while no device is imported ends the
\* connection: the task stops, handle_urb is not called, nothing is written
\* for it, and an ended task never reads or writes again.
C2_SubmitUnboundFatal ==
  [][\A c \in Conns :
       /\ (Reads(c, USBIP_CMD_SUBMIT, 4) /\ current_import_device[c] = None)
            => /\ Ended(c)'
               /\ output'[c] = output[c]
               /\ Last(trace'[c]).urb = "none"
       /\ Ended(c) => /\ task'[c] = task[c] /\ pos'[c] = pos[c]
                      /\ output'[c] = output[c] /\ trace'[c] = trace[c]]_vars

\* A submit panicked the task after an import that missed had unbound a
\* connection that was bound before.
C2_Witness ==
  \E c \in Conns :
    /\ task[c] = "panicked" /\ trace[c] # <<>>
    /\ Last(trace[c]).op = "submit" /\ Last(trace[c]).before = None
    /\ \E i \in 1..Len(trace[c]) : trace[c][i].op = "import" /\ trace[c][i].before # None

\* C3: an opcode other than the four known ones is fatal: no iteration
\* follows the one that read it.
C3_UnknownOpcodeFatal ==
  \A c \in Conns : \A i \in 1..Len(trace[c]) :
    trace[c][i].op = "unknown" => i = Len(trace[c]) /\ task[c] # "running"

\* C4 (as claimed): once a device is imported, current_import_device never
\* changes again.
C4_ImportImmutable ==
  [][\A c \in Conns :
       current_import_device[c] # None => current_import_device'[c] = current_import_device[c]]_vars

\* C4 (amended): current_import_device changes only in an iteration that
\* reads OP_REQ_IMPORT, and then to the device that request names (None on a
\* miss); DEVLIST, SUBMIT, UNLINK, unknown opcodes and the end of the stream
\* leave it as it is.
C4_ChangedOnlyByImport ==
  [][\A c \in Conns :
       current_import_device'[c] # current_import_device[c]
         => /\ Reads(c, OP_REQ_IMPORT, 40)
            /\ current_import_device'[c] = FirstMatching(Slice(input[c], pos[c] + 8, 32))]_vars

\* A connection imported a device, served another command with the import
\* unchanged, and then a second import replaced the device.
C4_Witness ==
  \E c \in Conns : \E i, j, k \in 1..Len(trace[c]) :
    /\ i < j /\ j < k
    /\ trace[c][i].op = "import" /\ trace[c][j].op # "import" /\ trace[c][k].op = "import"
    /\ trace[c][j].before # None /\ trace[c][k].before = trace[c][j].before
    /\ k = Len(trace[c]) /\ current_import_device[c] # trace[c][k].before

\* C5: an OP_REQ_IMPORT read in any state leaves the connection bound to the
\* first device whose zero-padded bus_id equals the 32 requested bytes, or
\* unbound if there is none, whatever it was bound to before.
C5_ImportOutcome ==
  [][\A c \in Conns :
       Reads(c, OP_REQ_IMPORT, 40)
         => /\ current_import_device'[c] = FirstMatching(Slice(input[c], pos[c] + 8, 32))
            /\ task'[c] = "running"]_vars

\* A bound connection was unbound by an import that missed, and a connection
\* was bound to the first of two devices with the same bus_id.
C5_Witness ==
  \E c \in Conns : \E i, k \in 1..Len(trace[c]) :
    /\ i < k /\ k = Len(trace[c])
    /\ trace[c][i].op = "import" /\ trace[c][i].before = None
    /\ Cardinality(Matching(Slice(input[c], trace[c][i].off + 8, 32))) = 2
    /\ trace[c][k].op = "import" /\ trace[c][k].before = 1
    /\ current_import_device[c] = None

\* C6: a submit on a bound connection for an address the imported device does
\* not have is answered with one failing USBIP_RET_SUBMIT and the connection
\* keeps running.
C6_UnknownEndpointAnswered ==
  [][\A c \in Conns :
       (/\ Reads(c, USBIP_CMD_SUBMIT, 48)
        /\ current_import_device[c] # None
        /\ LookupAddress(c) \notin Addresses(devices[current_import_device[c]]))
         => /\ task'[c] = "running"
            /\ Len(output'[c]) = Len(output[c]) + 1
            /\ IsFailingRetSubmit(Last(output'[c]))]_vars

\* C7: when handle_urb returns an error the connection keeps running and one
\* failing USBIP_RET_SUBMIT is written for the URB.
C7_HandlerErrorAnswered ==
  [][\A c \in Conns :
       (Len(trace'[c]) > Len(trace[c]) /\ Last(trace'[c]).urb = "err")
         => /\ task'[c] = "running"
            /\ Len(output'[c]) = Len(output[c]) + 1
            /\ IsFailingRetSubmit(Last(output'[c]))]_vars

\* C8: every OP_REP_IMPORT written is 0x01110003, a status word and, exactly
\* when the status is 0, a 312-byte device record; an import of a known
\* bus_id is answered with status 0 and the record of that bus_id, an import
\* of an unknown one with status 1 and nothing else, and the connection keeps
\* running.
C8_ImportReply ==
  [][\A c \in Conns :
       /\ \A k \in 1..Len(output'[c]) :
            IsImportReply(output'[c][k])
              => \/ Slice(output'[c][k], 4, 4) = ZeroBytes(4)
                    /\ Len(output'[c][k]) = 8 + DeviceRecordLen
                 \/ Slice(output'[c][k], 4, 4) # ZeroBytes(4) /\ Len(output'[c][k]) = 8
       /\ Reads(c, OP_REQ_IMPORT, 40)
            => /\ Len(output'[c]) = Len(output[c]) + 1
               /\ IsImportReply(Last(output'[c]))
               /\ task'[c] = "running"
               /\ IF Matching(Slice(input[c], pos[c] + 8, 32)) # {}
                  THEN /\ Slice(Last(output'[c]), 4, 4) = ZeroBytes(4)
                       /\ Slice(Last(output'[c]), 8 + 256, 32) = Slice(input[c], pos[c] + 8, 32)
                  ELSE Last(output'[c]) = ImportMissReply]_vars

\* An import that missed was answered with status 1 and the same connection
\* then answered a later import with a device record.
C8_Witness ==
  \E c \in Conns : \E k \in 1..Len(output[c]) :
    /\ output[c][k] = ImportMissReply
    /\ k < Len(output[c])
    /\ IsImportReply(Last(output[c])) /\ Len(Last(output[c])) = 8 + DeviceRecordLen

\* C9: in every USBIP_RET_SUBMIT written the actual_length field is the
\* number of bytes that follow the echoed setup, and those bytes are the
\* response handle_urb returned.
C9_LengthContract ==
  \A c \in Conns :
    /\ Len(RetSubmits(c)) = Len(Answered(c))
    /\ \A k \in 1..Len(RetSubmits(c)) :
         /\ U32(RetSubmits(c)[k], 24) = Len(RetSubmits(c)[k]) - 48
         /\ U32(RetSubmits(c)[k], 24) = Len(Answered(c)[k].resp)
         /\ Slice(RetSubmits(c)[k], 48, Len(RetSubmits(c)[k]) - 48) = Answered(c)[k].resp

\* Replies with data were written for an OUT submit and for an IN submit.
C9_Witness ==
  \E c \in Conns : \E i, j \in 1..Len(RetSubmits(c)) :
    /\ Slice(RetSubmits(c)[i], 12, 4) = <<0, 0, 0, 0>> /\ Len(RetSubmits(c)[i]) = 51
    /\ Slice(RetSubmits(c)[j], 12, 4) = <<0, 0, 0, 1>> /\ Len(RetSubmits(c)[j]) = 51

\* C10: every USBIP_RET_SUBMIT starts with 0x00000003, repeats the seq_num,
\* dev_id, direction and ep bytes and the 8 setup bytes of the submit it
\* answers, and has status, start_frame, number_of_packets and error_count 0.
C10_RetSubmitEcho ==
  \A c \in Conns :
    /\ Len(RetSubmits(c)) = Len(Answered(c))
    /\ \A k \in 1..Len(RetSubmits(c)) :
         /\ Slice(RetSubmits(c)[k], 0, 4) = <<0, 0, 0, 3>>
         /\ Slice(RetSubmits(c)[k], 4, 16) = Slice(input[c], Answered(c)[k].off + 4, 16)
         /\ Slice(RetSubmits(c)[k], 20, 4) = ZeroBytes(4)
         /\ Slice(RetSubmits(c)[k], 28, 12) = ZeroBytes(12)
         /\ Slice(RetSubmits(c)[k], 40, 8) = Slice(input[c], Answered(c)[k].off + 40, 8)

\* An IN submit for endpoint number 1, looked up as 0x81, was answered with
\* ep = 1, and its non-zero start_frame and number_of_packets came back as 0.
C10_Witness ==
  \E c \in Conns : \E k \in 1..Len(RetSubmits(c)) :
    /\ Slice(RetSubmits(c)[k], 12, 8) = <<0, 0, 0, 1, 0, 0, 0, 1>>
    /\ Slice(input[c], Answered(c)[k].off + 28, 8) # ZeroBytes(8)
    /\ RealEp(1, 1) = 129

\* C11: an OP_REQ_DEVLIST read in any state consumes the opcode and the
\* status word, writes 0x01110005, status 0, the number of devices and one
\* record group per device in list order, and leaves the import and the task
\* as they were.
Starts(c) == { sent[c][k] : k \in 1..Len(sent[c]) }

RECURSIVE GroupOff(_)
GroupOff(i) ==
  IF i = 1 THEN 12
  ELSE GroupOff(i - 1) + DeviceRecordLen + 4 * Len(devices[i - 1].interfaces)

IsDevlistReply(ch) ==
  /\ Len(ch) = GroupOff(Len(devices) + 1)
  /\ Slice(ch, 0, 8) = <<1, 17, 0, 5, 0, 0, 0, 0>>
  /\ U32(ch, 8) = Len(devices)
  /\ \A i \in 1..Len(devices) :
       /\ Slice(ch, GroupOff(i) + 256, 32) = ZeroPadded32(devices[i].bus_id)
       /\ U32(ch, GroupOff(i) + 256 + 32 + 4) = devices[i].dev_num
       /\ ch[GroupOff(i) + DeviceRecordLen] = Len(devices[i].interfaces)
       /\ \A k \in 1..Len(devices[i].interfaces) :
            Slice(ch, GroupOff(i) + DeviceRecordLen + 4 * (k - 1), 4)
              = << devices[i].interfaces[k].class, devices[i].interfaces[k].subclass,
                   devices[i].interfaces[k].protocol, 0 >>

C11_DevlistAnyState ==
  [][\A c \in Conns :
       Reads(c, OP_REQ_DEVLIST, 8)
         => /\ pos'[c] = pos[c] + 8
            /\ current_import_device'[c] = current_import_device[c]
            /\ task'[c] = "running"
            /\ Len(output'[c]) = Len(output[c]) + 1
            /\ IsDevlistReply(Last(output'[c]))]_vars

\* A connection bound to a device of the three-device server served an
\* OP_REQ_DEVLIST and is still bound to that device and running.
C11_Witness ==
  \E c \in Conns :
    /\ trace[c] # <<>> /\ Last(trace[c]).op = "devlist" /\ Last(trace[c]).before # None
    /\ Len(devices) > 1 /\ Running(c)
    /\ current_import_device[c] = Last(trace[c]).before
    /\ IsDevlistReply(Last(output[c]))

\* C12: the iteration that follows one which read DEVLIST, IMPORT, SUBMIT or
\* UNLINK at the start of a command of the peer reads its opcode at the start
\* of a command of the peer too.
C12_FramingSynchronised ==
  \A c \in Conns : \A i \in 1..(Len(trace[c]) - 1) :
    (/\ trace[c][i].op \in {"devlist", "import", "submit", "unlink"}
     /\ trace[c][i].off \in Starts(c)
     /\ trace[c][i + 1].op # "closed")
      => trace[c][i + 1].off \in Starts(c)

\* C13 (as claimed): on the server without devices, once the handler has read
\* the 8 bytes 01 01 80 05 00 00 00 00 the output begins with
\* 01 11 00 05 00 00 00 00 00 00 00 00 and that iteration left the connection
\* open.
S1Output == <<1, 17, 0, 5, 0, 0, 0, 0, 0, 0, 0, 0>>

AfterFirst8(c, bytes) ==
  /\ devices = <<>>
  /\ Len(input[c]) >= 8 /\ Slice(input[c], 0, 8) = bytes
  /\ pos[c] >= 8

BeginsWithS1Output(c) ==
  /\ output[c] # <<>> /\ Len(output[c][1]) >= 12
  /\ Slice(output[c][1], 0, 12) = S1Output

C13_ScenarioS1 ==
  \A c \in Conns :
    AfterFirst8(c, <<1, 1, 128, 5, 0, 0, 0, 0>>)
      => BeginsWithS1Output(c) /\ trace[c][1].st = "running"

\* C13 (amended): the same for the 8 bytes 01 11 80 05 00 00 00 00, the
\* OP_REQ_DEVLIST request.
C13_ScenarioS1Devlist ==
  \A c \in Conns :
    AfterFirst8(c, <<1, 17, 128, 5, 0, 0, 0, 0>>)
      => BeginsWithS1Output(c) /\ trace[c][1].st = "running"

\* The server without devices has answered 01 11 80 05 00 00 00 00 and
\* nothing else yet.
C13_Witness ==
  \E c \in Conns :
    /\ AfterFirst8(c, <<1, 17, 128, 5, 0, 0, 0, 0>>) /\ pos[c] = 8
    /\ output[c] = <<S1Output>> /\ Running(c)

\* C17 (as claimed): a submit with a wire ep in 0..15 on a bound connection
\* is looked up under ep | 0x80 when direction is 1 and under ep for every
\* other direction: handle_urb is called exactly when that address is on the
\* imported device.
WireDirection(c) == U32(input[c], pos[c] + 12)
WireEp(c) == U32(input[c], pos[c] + 16)

SubmitLookedUpAs(c, address) ==
  (/\ Reads(c, USBIP_CMD_SUBMIT, 48)
   /\ current_import_device[c] # None
   /\ WireEp(c) \in 0..15
   /\ Last(trace'[c]).op = "submit")
    => (Last(trace'[c]).urb # "none"
          <=> address \in Addresses(devices[current_import_device[c]]))

C17_OrOnlyForIn ==
  [][\A c \in Conns :
       SubmitLookedUpAs(c, IF WireDirection(c) = 1 THEN WireEp(c) + 128 ELSE WireEp(c))]_vars

\* C17 (amended): the address is ep | 0x80 for every direction other than 0,
\* and ep when direction is 0.
C17_OrUnlessOut ==
  [][\A c \in Conns :
       SubmitLookedUpAs(c, IF WireDirection(c) # 0 THEN WireEp(c) + 128 ELSE WireEp(c))]_vars

\* A submit with direction 2 and ep 3 was dispatched on a device that has
\* endpoint 0x83 and no endpoint 0x03, and a submit with direction 0 and ep 2
\* on a device that has endpoint 0x02 and no endpoint 0x82.
C17_Witness ==
  \E c \in Conns : \E i, j \in 1..Len(trace[c]) :
    /\ trace[c][i].op = "submit" /\ trace[c][i].urb # "none"
    /\ Slice(input[c], trace[c][i].off + 12, 8) = <<0, 0, 0, 2, 0, 0, 0, 3>>
    /\ 131 \in Addresses(devices[trace[c][i].before])
    /\ 3 \notin Addresses(devices[trace[c][i].before])
    /\ trace[c][j].op = "submit" /\ trace[c][j].urb # "none"
    /\ Slice(input[c], trace[c][j].off + 12, 8) = <<0, 0, 0, 0, 0, 0, 0, 2>>
    /\ 2 \in Addresses(devices[trace[c][j].before])
    /\ 130 \notin Addresses(devices[trace[c][j].before])

\* C18: a USBIP_CMD_UNLINK of the peer read on a bound connection calls no
\* handler, leaves the connection bound to the same device and running, and
\* a USBIP_CMD_SUBMIT the peer sends right after it, for an endpoint of that
\* device, is dispatched to that device once the handler has read all input.
FollowedBySubmit(c, off, dev) ==
  /\ off + 48 \in Starts(c)
  /\ Slice(input[c], off + 48, 4) = USBIP_CMD_SUBMIT
  /\ AsU8(RealEp(U32(input[c], off + 60), U32(input[c], off + 64))) \in Addresses(devices[dev])

C18_UnlinkAcknowledged ==
  \A c \in Conns : \A i \in 1..Len(trace[c]) :
    (trace[c][i].op = "unlink" /\ trace[c][i].off \in Starts(c) /\ trace[c][i].before # None)
      => /\ trace[c][i].urb = "none" /\ trace[c][i].st = "running"
         /\ IF i < Len(trace[c]) THEN trace[c][i + 1].before = trace[c][i].before
            ELSE current_import_device[c] = trace[c][i].before
         /\ (FollowedBySubmit(c, trace[c][i].off, trace[c][i].before) /\ pos[c] = Len(input[c]))
              => \E j \in (i + 1)..Len(trace[c]) :
                   /\ trace[c][j].op = "submit" /\ trace[c][j].off = trace[c][i].off + 48
                   /\ trace[c][j].before = trace[c][i].before /\ trace[c][j].urb # "none"

\* C20: when the host transfer behind a submit fails, the reply written for
\* the submit is a USBIP_RET_SUBMIT with non-zero status and no data.
C20_HostFailureReported ==
  [][\A c \in Conns :
       (Len(trace'[c]) > Len(trace[c]) /\ Last(trace'[c]).transfer = "failed")
         => /\ Len(output'[c]) = Len(output[c]) + 1
            /\ IsFailingRetSubmit(Last(output'[c]))]_vars

\* C14: an OP_REQ_IMPORT of a known bus_id binds its connection and is
\* answered with status 0 whatever the other connections have imported, and
\* no step of one connection (import, failed import, submit, close, crash)
\* changes the import of another connection.
C14_ImportConnectionLocal ==
  [][\A c \in ServerConns :
       /\ (Reads(c, OP_REQ_IMPORT, 40) /\ Matching(Slice(input[c], pos[c] + 8, 32)) # {})
            => /\ current_import_device'[c] = FirstMatching(Slice(input[c], pos[c] + 8, 32))
               /\ Len(output'[c]) = Len(output[c]) + 1
               /\ Slice(Last(output'[c]), 0, 8) = <<1, 17, 0, 3, 0, 0, 0, 0>>
       /\ (trace'[c] # trace[c] \/ eof'[c] # eof[c] \/ task'[c] # task[c])
            => \A b \in ServerConns \ {c} :
                 current_import_device'[b] = current_import_device[b]]_vars

\* Two connections are bound to the same device, one imported it after the
\* other, and one of the two has crashed since while the other still runs.
C14_Witness ==
  \E c, b \in ServerConns :
    /\ c # b
    /\ current_import_device[c] # None
    /\ current_import_device[c] = current_import_device[b]
    /\ task[b] = "panicked" /\ Running(c)
    /\ \E i \in 1..Len(trace[b]) : trace[b][i].op = "import" /\ trace[b][i].st = "running"
    /\ Last(trace[c]).op = "import"

\* C15: whatever the connection tasks have done and however many accepts
\* have failed, the listener takes the next connection, and the end of one
\* task or a failed accept ends no other task.
C15_ListenerSurvives ==
  /\ [](\A c \in ServerConns :
          (task[c] = "none" /\ \A b \in ServerConns : b < c => task[b] # "none")
            => ENABLED Accept(c))
  /\ [][\A c \in ServerConns :
          (Ended(c)' /\ ~Ended(c)) \/ accept_errors' # accept_errors
            => \A b \in ServerConns \ {c} : task'[b] = task[b]]_vars

\* After a failed accept, with one task that panicked and one that is still
\* running, a further connection has been accepted or can be.
C15_Witness ==
  \E a, b \in ServerConns :
    /\ accept_errors > 0
    /\ task[a] = "panicked"
    /\ a < b /\ Running(b) /\ trace[b] # <<>>

\* C16: the handler reads a command header only when no submit is in
\* progress on the connection and every submit that handle_urb answered has
\* its USBIP_RET_SUBMIT written.
ReadsHeader(c) ==
  \/ pos'[c] # pos[c]
  \/ Len(trace'[c]) > Len(trace[c]) /\ Last(trace'[c]).op = "closed"

C16_StrictlySequential ==
  [][\A c \in Conns :
       ReadsHeader(c)
         => /\ inflight[c].stage = "none"
            /\ Len(RetSubmits(c)) = Len(Answered(c))]_vars

\* A submit was read, dispatched and answered step by step, and the handler
\* has read the command after it.
C16_Witness ==
  \E c \in Conns : \E i \in 1..(Len(trace[c]) - 1) :
    /\ trace[c][i].op = "submit" /\ trace[c][i].urb = "ok"
    /\ Len(RetSubmits(c)) >= 1
    /\ inflight[c].stage = "none"

\* C19: once the peer has closed, the handler task ends, whatever it has
\* left to read; a task that has ended stays ended and writes nothing.
C19_ClosedTerminates ==
  /\ \A c \in Conns : eof[c] ~> Ended(c)
  /\ [][\A c \in Conns : Ended(c) => Ended(c)' /\ output'[c] = output[c]]_vars

\* The peer closed in the middle of a command after known and unknown
\* opcodes, and the task has ended with the partial command unread.
C19_Witness ==
  \E c \in Conns :
    /\ eof[c] /\ task[c] = "returned"
    /\ Last(trace[c]).op = "closed" /\ pos[c] > Last(trace[c]).off
    /\ \E i, j \in 1..Len(trace[c]) :
         trace[c][i].op = "unknown" /\ trace[c][j].op = "devlist"

====
